---- MODULE Spec2Model ----
(***************************************************************************)
(* Model of src/main.py: the AutonomousDispatcherAgent (plan parsing,      *)
(* registry lookup, concurrent fan-out through asyncio.gather, aggregation)*)
(* its specialised agents, the FinalFormatterAgent and the driver main(),  *)
(* run by one asyncio event loop with oracle calls executed in threads.    *)
(***************************************************************************)
EXTENDS Integers, Sequences, FiniteSets, TLC

DefaultMaxResults == 5

(***************************************************************************)
(* Python values.  A value decoded from JSON is a tagged record; the same  *)
(* records stand for the Python objects the code handles (dict, list, str, *)
(* int, None).                                                             *)
(***************************************************************************)
JNull == [t |-> "null"]

JNum(n) == [t |-> "num", n |-> n]

JStr(s) == [t |-> "str", s |-> s]

JList(l) == [t |-> "list", l |-> l]

JObj(o) == [t |-> "obj", o |-> o]

EmptyDict == <<>>

\* dict.get(key, default) on a dict
DictGet(d, key, default) == IF key \in DOMAIN d.o THEN d.o[key] ELSE default

\* d[key] = value on a dict under construction: a repeated key keeps the last value
DictSet(o, key, value) == [x \in (DOMAIN o) \cup {key} |-> IF x = key THEN value ELSE o[x]]

\* Python truthiness (bool(v)) of a value
Truthy(v) ==
    CASE v.t = "null" -> FALSE
      [] v.t = "num"  -> v.n # 0
      [] v.t = "str"  -> v.s # ""
      [] v.t = "list" -> Len(v.l) > 0
      [] v.t = "obj"  -> DOMAIN v.o # {}
      [] v.t = "agent" -> TRUE

\* hash(v) succeeds: lists and dicts are unhashable
Hashable(v) == v.t \in {"null", "num", "str"}

(***************************************************************************)
(* Text returned by the oracle for a plan: a sequence of lexical tokens.   *)
(***************************************************************************)
Tok(kind) == [k |-> kind]

TStr(s) == [k |-> "str", s |-> s]

TNum(n) == [k |-> "num", n |-> n]

\* a bare word of prose: no JSON value starts with it
TWord(w) == [k |-> "word", w |-> w]

IsWs(tok) == tok.k = "ws"

RECURSIVE LStrip(_)
\* leading whitespace removed
LStrip(text) ==
    IF Len(text) > 0 /\ IsWs(Head(text)) THEN LStrip(Tail(text)) ELSE text

RECURSIVE RStrip(_)
\* trailing whitespace removed
RStrip(text) ==
    IF Len(text) > 0 /\ IsWs(text[Len(text)])
    THEN RStrip(SubSeq(text, 1, Len(text) - 1))
    ELSE text

\* str.strip()
Strip(text) == RStrip(LStrip(text))

(***************************************************************************)
(* json.loads: a recursive-descent decoder over the tokens.  A decoding    *)
(* step yields [ok, val, next]: whether a value was read, the value and    *)
(* the index of the first token after it.                                  *)
(***************************************************************************)
DecodeError == [ok |-> FALSE, val |-> JNull, next |-> 0]

Decoded(v, n) == [ok |-> TRUE, val |-> v, next |-> n]

RECURSIVE SkipWs(_, _)
SkipWs(toks, i) ==
    IF i <= Len(toks) /\ IsWs(toks[i]) THEN SkipWs(toks, i + 1) ELSE i

KindAt(toks, i) == IF i <= Len(toks) THEN toks[i].k ELSE "eof"

RECURSIVE ParseValue(_, _), ParseArrayItems(_, _, _), ParseObjectItems(_, _, _)
\* one value starting at token i
ParseValue(toks, i) ==
    LET kind == KindAt(toks, i) IN
    CASE kind = "str"  -> Decoded(JStr(toks[i].s), i + 1)
      [] kind = "num"  -> Decoded(JNum(toks[i].n), i + 1)
      [] kind = "null" -> Decoded(JNull, i + 1)
      [] kind = "["    ->
            LET j == SkipWs(toks, i + 1) IN
            IF KindAt(toks, j) = "]"
            THEN Decoded(JList(<<>>), j + 1)
            ELSE ParseArrayItems(toks, j, <<>>)
      [] kind = "{"    ->
            LET j == SkipWs(toks, i + 1) IN
            IF KindAt(toks, j) = "}"
            THEN Decoded(JObj(EmptyDict), j + 1)
            ELSE ParseObjectItems(toks, j, EmptyDict)
      [] OTHER         -> DecodeError

\* the items of an array, a value expected at token i
ParseArrayItems(toks, i, acc) ==
    LET r == ParseValue(toks, i) IN
    IF ~r.ok THEN DecodeError
    ELSE LET j == SkipWs(toks, r.next) IN
         CASE KindAt(toks, j) = "," ->
                ParseArrayItems(toks, SkipWs(toks, j + 1), Append(acc, r.val))
           [] KindAt(toks, j) = "]" -> Decoded(JList(Append(acc, r.val)), j + 1)
           [] OTHER -> DecodeError

\* the members of an object, a key expected at token i
ParseObjectItems(toks, i, acc) ==
    IF KindAt(toks, i) # "str" THEN DecodeError
    ELSE LET c == SkipWs(toks, i + 1) IN
         IF KindAt(toks, c) # ":" THEN DecodeError
         ELSE LET r == ParseValue(toks, SkipWs(toks, c + 1)) IN
              IF ~r.ok THEN DecodeError
              ELSE LET j == SkipWs(toks, r.next)
                       d == DictSet(acc, toks[i].s, r.val) IN
                   CASE KindAt(toks, j) = "," ->
                          ParseObjectItems(toks, SkipWs(toks, j + 1), d)
                     [] KindAt(toks, j) = "}" -> Decoded(JObj(d), j + 1)
                     [] OTHER -> DecodeError

\* json.loads(text): [ok |-> FALSE] stands for json.JSONDecodeError
json_loads(text) ==
    LET r == ParseValue(text, SkipWs(text, 1)) IN
    IF r.ok /\ SkipWs(text, r.next) = Len(text) + 1 THEN r ELSE DecodeError

EmptyPlan == JObj(DictSet(EmptyDict, "tasks", JList(<<>>)))

\* parse_natural_language_request from the stripped text: json.loads, the empty plan
\* on a JSONDecodeError
parse_plan(text) ==
    LET r == json_loads(text) IN
    IF r.ok THEN r.val ELSE EmptyPlan

(***************************************************************************)
(* The specialised agents.  An agent object is [t, cls, name]; None is     *)
(* JNull.  A call of run(params) executes up to its first suspension: it   *)
(* returns a result, raises, or awaits the oracle call it has just issued. *)
(* The second half of run continues from the oracle's response.            *)
(***************************************************************************)
Agent(cls, name) == [t |-> "agent", cls |-> cls, name |-> name]

None == JNull

Return(result) == [kind |-> "return", result |-> result]

Raise(exc) == [kind |-> "raise", exc |-> exc]

Await == [kind |-> "await"]

\* what an oracle call delivers: the content of the first choice, or an exception
Response(content) == [ok |-> TRUE, content |-> content]

OracleError == [ok |-> FALSE]

\* seq[:n] for an int n, Python slice semantics (a negative n counts from the end)
SlicePrefix(seq, n) ==
    LET stop == IF n < 0 THEN (IF Len(seq) + n < 0 THEN 0 ELSE Len(seq) + n)
                ELSE (IF n > Len(seq) THEN Len(seq) ELSE n)
    IN SubSeq(seq, 1, stop)

\* InternetSearchAgent.process_results
process_results(self, data) ==
    [agent |-> self.name, action |-> "search_internet",
     results |-> [i \in 1..Len(data) |->
                    [title |-> data[i].title, url |-> data[i].link,
                     snippet |-> data[i].snippet]]]

\* InternetSearchAgent.run: no oracle call, a simulated result
InternetSearchAgent_run(self, params) ==
    IF params.t # "obj" THEN Raise("AttributeError")
    ELSE LET keywords    == DictGet(params, "keywords", None)
             max_results == DictGet(params, "max_results", JNum(DefaultMaxResults))
             items == << [title |-> <<"Sample Article about", keywords>>,
                          link |-> "https://example.com/article1",
                          snippet |-> "This is a simulated snippet for article 1."],
                         [title |-> <<"Another Resource on", keywords>>,
                          link |-> "https://example.com/article2",
                          snippet |-> "This is a simulated snippet for article 2."] >>
         IN CASE max_results.t = "num"  ->
                   Return(process_results(self, SlicePrefix(items, max_results.n)))
              [] max_results.t = "null" -> Return(process_results(self, items))
              [] OTHER                  -> Raise("TypeError")

\* faulty variant: only an absent text is degenerate (get("text") tested against None)
SummarizerAgent_run_AbsentOnly(self, params) ==
    IF params.t # "obj" THEN Raise("AttributeError")
    ELSE IF "text" \notin DOMAIN params.o
         THEN Return([agent |-> self.name, action |-> "summarize", summary |-> <<>>])
         ELSE Await

\* SummarizerAgent.run up to the oracle call
SummarizerAgent_run(self, params) ==
    IF params.t # "obj" THEN Raise("AttributeError")
    ELSE LET text == DictGet(params, "text", JStr("")) IN
         IF ~Truthy(text)
         THEN Return([agent |-> self.name, action |-> "summarize", summary |-> <<>>])
         ELSE Await

\* SummarizerAgent.run from the oracle's response
SummarizerAgent_resume(self, response) ==
    IF ~response.ok THEN Raise("OracleError")
    ELSE Return([agent |-> self.name, action |-> "summarize",
                 summary |-> Strip(response.content)])

RECURSIVE SplitComma(_, _)
\* str.split(","): the fragments between commas, cur being the fragment in progress
SplitComma(text, cur) ==
    IF text = <<>> THEN <<cur>>
    ELSE IF Head(text).k = ","
         THEN <<cur>> \o SplitComma(Tail(text), <<>>)
         ELSE SplitComma(Tail(text), Append(cur, Head(text)))

RECURSIVE StripNonEmpty(_)
\* [ent.strip() for ent in fragments if ent.strip()]
StripNonEmpty(fragments) ==
    IF fragments = <<>> THEN <<>>
    ELSE LET ent == Strip(Head(fragments)) IN
         IF ent # <<>>
         THEN <<ent>> \o StripNonEmpty(Tail(fragments))
         ELSE StripNonEmpty(Tail(fragments))

\* EntityExtractorAgent.run up to the oracle call
EntityExtractorAgent_run(self, params) ==
    IF params.t # "obj" THEN Raise("AttributeError")
    ELSE LET text == DictGet(params, "text", JStr("")) IN
         IF ~Truthy(text)
         THEN Return([agent |-> self.name, action |-> "entity_extraction",
                      entities |-> <<>>])
         ELSE Await

\* EntityExtractorAgent.run from the oracle's response
EntityExtractorAgent_resume(self, response) ==
    IF ~response.ok THEN Raise("OracleError")
    ELSE LET raw_entities == Strip(response.content) IN
         Return([agent |-> self.name, action |-> "entity_extraction",
                 entities |-> StripNonEmpty(SplitComma(raw_entities, <<>>))])

\* TranslatorAgent.run up to the oracle call
TranslatorAgent_run(self, params) ==
    IF params.t # "obj" THEN Raise("AttributeError")
    ELSE LET text == DictGet(params, "text", JStr("")) IN
         IF ~Truthy(text)
         THEN Return([agent |-> self.name, action |-> "translate",
                      translated_text |-> <<>>])
         ELSE Await

\* TranslatorAgent.run from the oracle's response
TranslatorAgent_resume(self, response) ==
    IF ~response.ok THEN Raise("OracleError")
    ELSE Return([agent |-> self.name, action |-> "translate",
                 translated_text |-> Strip(response.content)])

PlaceholderText == <<TWord("No result to format.")>>

\* faulty variant: only an absent Aggregate is replaced by the placeholder (tested against None)
FinalFormatterAgent_run_AbsentOnly(self, params) ==
    LET aggregated == DictGet(params, "aggregated", None) IN
    IF aggregated = None
    THEN Return([agent |-> self.name, action |-> "final_format",
                 formatted_text |-> PlaceholderText])
    ELSE Await

\* FinalFormatterAgent.run up to the oracle call; params is a dict
FinalFormatterAgent_run(self, params) ==
    LET aggregated == DictGet(params, "aggregated", None) IN
    IF ~Truthy(aggregated)
    THEN Return([agent |-> self.name, action |-> "final_format",
                 formatted_text |-> PlaceholderText])
    ELSE Await

\* FinalFormatterAgent.run from the oracle's response
FinalFormatterAgent_resume(self, response) ==
    IF ~response.ok THEN Raise("OracleError")
    ELSE Return([agent |-> self.name, action |-> "final_format",
                 formatted_text |-> Strip(response.content)])

\* agent.run(params), dispatched on the class of the agent
AgentRun(agent, params) ==
    CASE agent.cls = "InternetSearchAgent"  -> InternetSearchAgent_run(agent, params)
      [] agent.cls = "SummarizerAgent"      -> SummarizerAgent_run(agent, params)
      [] agent.cls = "EntityExtractorAgent" -> EntityExtractorAgent_run(agent, params)
      [] agent.cls = "TranslatorAgent"      -> TranslatorAgent_run(agent, params)

\* the continuation of agent.run(params) when its oracle call is over
AgentResume(agent, response) ==
    CASE agent.cls = "SummarizerAgent"      -> SummarizerAgent_resume(agent, response)
      [] agent.cls = "EntityExtractorAgent" -> EntityExtractorAgent_resume(agent, response)
      [] agent.cls = "TranslatorAgent"      -> TranslatorAgent_resume(agent, response)

(***************************************************************************)
(* The dispatcher's registry.                                              *)
(***************************************************************************)
Actions == {"summarize", "entity_extraction", "translate", "search_internet"}

\* the agent name each fixed action is bound to
ProviderName(action) ==
    CASE action = "summarize"         -> "summarizer"
      [] action = "entity_extraction" -> "entity_extraction"
      [] action = "translate"         -> "translator"
      [] action = "search_internet"   -> "search_internet"

RECURSIVE IndexByName(_)
\* {agent.name: agent for agent in agents}: the last agent of a name is kept
IndexByName(agents) ==
    IF agents = <<>> THEN EmptyDict
    ELSE LET last == agents[Len(agents)]
             rest == IndexByName(SubSeq(agents, 1, Len(agents) - 1)) IN
         DictSet(rest, last.name, last)

\* faulty variant: only the actions whose provider was supplied become keys
Registry_OnlySupplied(agents) ==
    LET byName == IndexByName(agents) IN
    [a \in {b \in Actions : ProviderName(b) \in DOMAIN byName} |-> byName[ProviderName(a)]]

\* AutonomousDispatcherAgent.__init__: action_to_agent
Registry(agents) ==
    LET byName == IndexByName(agents) IN
    [a \in Actions |->
        IF ProviderName(a) \in DOMAIN byName THEN byName[ProviderName(a)] ELSE None]

\* faulty variant: self.action_to_agent[action], a KeyError for an action that is no key
Lookup_Subscript(registry, action) ==
    IF ~Hashable(action) THEN Raise("TypeError")
    ELSE IF action.t = "str" /\ action.s \in DOMAIN registry
         THEN Return(registry[action.s])
         ELSE Raise("KeyError")

\* self.action_to_agent.get(action)
Lookup(registry, action) ==
    IF ~Hashable(action) THEN Raise("TypeError")
    ELSE IF action.t = "str" /\ action.s \in DOMAIN registry
         THEN Return(registry[action.s])
         ELSE Return(None)

\* list(self.action_to_agent.keys()): the actions the planning prompt advertises
AdvertisedActions(registry) == DOMAIN registry

\* the agents main() creates and hands to the dispatcher
MainAgents ==
    << Agent("SummarizerAgent", "summarizer"),
       Agent("EntityExtractorAgent", "entity_extraction"),
       Agent("TranslatorAgent", "translator"),
       Agent("InternetSearchAgent", "search_internet") >>

final_formatter == Agent("FinalFormatterAgent", "final_formatter")

\* the params main hands to the formatter: {"aggregated": v}
FormatterParams(v) == JObj(DictSet(EmptyDict, "aggregated", v))

(***************************************************************************)
(* What the oracle may answer.  A provider or the formatter receives one   *)
(* of OracleTexts; the plan parser receives one of PlanTexts: texts that   *)
(* are no JSON, JSON of another shape than a plan, and plans of at most    *)
(* MaxPlanLen tasks drawn from TaskPool besides a few longer fixed ones.   *)
(***************************************************************************)
MaxPlanLen == 2

NumRequests == 3

AlphaText == <<TWord("alpha")>>

EntitiesText ==
    <<Tok("ws"), TWord("Steve"), Tok(","), Tok("ws"), Tok(","), TWord("Mary"), Tok("ws")>>

OracleTexts == {AlphaText, EntitiesText}

RECURSIVE JoinComma(_)
JoinComma(texts) ==
    IF texts = <<>> THEN <<>>
    ELSE IF Len(texts) = 1 THEN texts[1]
         ELSE texts[1] \o <<Tok(","), Tok("ws")>> \o JoinComma(Tail(texts))

ArrText(itemTexts) == <<Tok("[")>> \o JoinComma(itemTexts) \o <<Tok("]")>>

Member(key, valueText) == <<TStr(key), Tok(":"), Tok("ws")>> \o valueText

ObjText(members) == <<Tok("{")>> \o JoinComma(members) \o <<Tok("}")>>

TaskText(action, paramsText) ==
    ObjText(<< Member("action", <<TStr(action)>>), Member("params", paramsText) >>)

PlanText(taskTexts) == ObjText(<< Member("tasks", ArrText(taskTexts)) >>)

TextParam(text) == ObjText(<< Member("text", <<TStr(text)>>) >>)

SummarizeTask == TaskText("summarize", TextParam("Steve and Mary are going to the theater"))

ExtractTask == TaskText("entity_extraction", TextParam("Steve and Mary are going to the theater"))

TranslateTask ==
    TaskText("translate",
             ObjText(<< Member("text", <<TStr("Bonjour tout le monde!")>>),
                        Member("target_language", <<TStr("en")>>) >>))

SearchTask ==
    TaskText("search_internet",
             ObjText(<< Member("keywords", <<TStr("openai chatgpt")>>),
                        Member("max_results", <<TNum(1)>>) >>))

UnknownTask == TaskText("send_email", TextParam("hello"))

\* a second task of the action summarize, on another text
SummarizeOtherTask == TaskText("summarize", TextParam("Bonjour tout le monde!"))

\* tasks whose text is empty or absent, one of them with no params at all
SummarizeEmptyTask == TaskText("summarize", TextParam(""))

ExtractNoTextTask == ObjText(<< Member("action", <<TStr("entity_extraction")>>) >>)

TranslateNoTextTask ==
    TaskText("translate", ObjText(<< Member("target_language", <<TStr("fr")>>) >>))

\* a task with no action, and tasks whose fields have another type than the plan's
NoActionTask == ObjText(<< Member("params", TextParam("hello")) >>)

ListActionTask ==
    ObjText(<< Member("action", ArrText(<< <<TStr("summarize")>> >>)) >>)

NumParamsTask == TaskText("translate", <<TNum(5)>>)

SearchBadMaxTask ==
    TaskText("search_internet", ObjText(<< Member("max_results", <<TStr("many")>>) >>))

TaskPool == {SummarizeTask, SearchTask, UnknownTask}

RECURSIVE SeqsUpTo(_, _)
\* the sequences over S of length at most n
SeqsUpTo(S, n) ==
    IF n = 0 THEN {<<>>}
    ELSE LET shorter == SeqsUpTo(S, n - 1) IN
         shorter \cup {Append(q, e) : q \in {r \in shorter : Len(r) = n - 1}, e \in S}

\* texts json.loads rejects
MalformedTexts ==
    { <<>>,
      <<TWord("Sure, here is the plan")>>,
      <<Tok("{"), TStr("tasks"), Tok(":"), Tok("[")>>,
      <<TWord("Here is the plan:")>> \o PlanText(<<SummarizeTask>>) \o <<TWord("Done.")>>,
      PlanText(<<>>) \o <<Tok("ws"), Tok("}")>> }

\* valid JSON whose root is no object
NonObjectTexts ==
    { ArrText(<<SummarizeTask>>), <<Tok("[") , Tok("]")>>, <<TStr("summarize")>>,
      <<TNum(5)>>, <<Tok("ws"), Tok("null"), Tok("ws")>> }

\* valid JSON objects of another shape than a plan
WrongShapeTexts ==
    { ObjText(<<>>),
      ObjText(<< Member("plan", ArrText(<<SummarizeTask>>)) >>),
      ObjText(<< Member("tasks", <<TNum(5)>>) >>),
      ObjText(<< Member("tasks", <<Tok("null")>>) >>),
      ObjText(<< Member("tasks", <<TStr("summarize")>>) >>),
      ObjText(<< Member("tasks", SummarizeTask) >>),
      PlanText(<< <<TStr("summarize")>> >>),
      PlanText(<< TranslateTask, <<TNum(5)>> >>),
      PlanText(<< ListActionTask >>),
      PlanText(<< NumParamsTask >>),
      PlanText(<< SearchBadMaxTask, SummarizeTask >>) }

\* plans of the expected shape
FixedPlanTexts ==
    { <<Tok("ws")>> \o PlanText(<<SummarizeTask, ExtractTask>>) \o <<Tok("ws")>>,
      PlanText(<<SummarizeEmptyTask, ExtractNoTextTask, TranslateNoTextTask>>),
      PlanText(<<NoActionTask, UnknownTask>>),
      PlanText(<<UnknownTask, TranslateTask, NoActionTask, SearchTask>>),
      PlanText(<<SummarizeTask, SummarizeOtherTask, TranslateTask>>) }

PlanTexts ==
    MalformedTexts \cup NonObjectTexts \cup WrongShapeTexts \cup FixedPlanTexts
        \cup {PlanText(q) : q \in SeqsUpTo(TaskPool, MaxPlanLen)}

\* parse_plan on every text the parser can receive, computed once
PlanOf == [text \in {Strip(t) : t \in PlanTexts} |-> parse_plan(text)]

(***************************************************************************)
(* State.                                                                  *)
(***************************************************************************)
VARIABLES
    action_to_agent,    \* dispatcher.action_to_agent
    reqIdx,             \* main: position in requests
    mainPc,             \* main task: where it runs or is suspended
    json_text,          \* parse_natural_language_request: json_text
    plan,               \* parse_natural_language_request / dispatch: plan
    items,              \* dispatch: the sequence the for loop iterates
    k,                  \* dispatch: position of the for loop in items
    tasks,              \* dispatch: tasks, the coroutines and then the Tasks of gather
    outer,              \* gather: the future dispatch awaits
    aggregated,         \* dispatch: aggregated / main: aggregated_result
    final_text_result,  \* main: final_text_result
    ready,              \* event loop: callbacks ready to run, oldest first
    batchLeft,          \* event loop: callbacks left in the current iteration
    stopping,           \* event loop: stop requested
    loop,               \* event loop: "running" or "closed"
    threads,            \* oracle calls executing in worker threads
    dispStatus,         \* dispatch of the current request: running, returned, failed
    formatCalls,        \* calls of final_formatter.run for the current request
    oracleCalls,        \* oracle calls issued by the parser and by the formatter
    order               \* the tasks of the cycle in the order they finished

vars == << action_to_agent, reqIdx, mainPc, json_text, plan, items, k, tasks, outer,
           aggregated, final_text_result, ready, batchLeft, stopping, loop, threads,
           dispStatus, formatCalls, oracleCalls, order >>

Unset == [t |-> "unset"]

NoOuter == [st |-> "none", nfinished |-> 0, nfuts |-> 0]

\* caller id of the main task; task i of the cycle is caller i
MainId == 0

StepEntry(c, out) == [k |-> "step", c |-> c, out |-> out]

SetEntry(c, out) == [k |-> "set", c |-> c, out |-> out]

DoneEntry(c) == [k |-> "done_cb", c |-> c]

StopEntry == [k |-> "stop"]

Suspended == {"parse_wait", "gather_wait", "format_wait"}

\* the state once the dispatcher has been constructed on agents and main is about to
\* take its first request
Construct(agents) ==
    /\ action_to_agent = Registry(agents)
    /\ reqIdx = 1
    /\ mainPc = "loop"
    /\ json_text = <<>>
    /\ plan = Unset
    /\ items = <<>>
    /\ k = 1
    /\ tasks = <<>>
    /\ outer = NoOuter
    /\ aggregated = Unset
    /\ final_text_result = Unset
    /\ ready = <<>>
    /\ batchLeft = 0
    /\ stopping = FALSE
    /\ loop = "running"
    /\ threads = {}
    /\ dispStatus = "idle"
    /\ formatCalls = 0
    /\ oracleCalls = [parse |-> 0, format |-> 0]
    /\ order = <<>>

Init == Construct(MainAgents)

\* lists of agents a dispatcher can be constructed with: none, those of main, agents
\* whose names are those of other providers, two agents of one name, and an agent whose
\* name no action is bound to beside a provider
AgentLists ==
    { <<>>,
      MainAgents,
      << Agent("TranslatorAgent", "summarizer"), Agent("SummarizerAgent", "translator") >>,
      << Agent("SummarizerAgent", "summarizer"), Agent("EntityExtractorAgent", "summarizer") >>,
      << Agent("InternetSearchAgent", "web_search"), Agent("TranslatorAgent", "translator") >> }

(***************************************************************************)
(* Pure steps of dispatch and of gather.                                   *)
(***************************************************************************)
\* for task in plan.get("tasks", []): the sequence iterated, or the exception
IterTasks(p) ==
    IF p.t # "obj" THEN Raise("AttributeError")
    ELSE LET v == DictGet(p, "tasks", JList(<<>>)) IN
         CASE v.t = "list" -> Return(v.l)
              \* a str yields its characters and a dict its keys: str objects
           [] v.t = "str"  -> Return(IF v.s = "" THEN <<>> ELSE <<JStr(v.s)>>)
           [] v.t = "obj"  -> Return(IF DOMAIN v.o = {} THEN <<>>
                                     ELSE <<JStr(CHOOSE key \in DOMAIN v.o : TRUE)>>)
           [] OTHER        -> Raise("TypeError")

\* the coroutine object agent.run(params), not started; action and pos record the
\* task of the plan it was created for
Coroutine(agent, params, action, pos) ==
    [agent |-> agent, params |-> params, action |-> action, pos |-> pos,
     st |-> "created", res |-> Unset, ncalls |-> 0]

\* faulty variant: a task whose action already has a coroutine in the cycle is skipped
ResolveTask_OncePerAction(registry, task, pos) ==
    IF task.t # "obj" THEN Raise("AttributeError")
    ELSE LET action == DictGet(task, "action", None)
             params == DictGet(task, "params", JObj(EmptyDict))
             found  == Lookup(registry, action) IN
         IF found.kind = "raise" THEN found
         ELSE IF Truthy(found.result) /\ \A i \in 1..Len(tasks) : tasks[i].action # action
              THEN Return(<<Coroutine(found.result, params, action, pos)>>)
              ELSE Return(<<>>)

\* one iteration of the for loop of dispatch on task: the coroutine appended to
\* tasks, nothing (no matching agent), or the exception
ResolveTask(registry, task, pos) ==
    IF task.t # "obj" THEN Raise("AttributeError")
    ELSE LET action == DictGet(task, "action", None)
             params == DictGet(task, "params", JObj(EmptyDict))
             found  == Lookup(registry, action) IN
         IF found.kind = "raise" THEN found
         ELSE IF Truthy(found.result)
              THEN Return(<<Coroutine(found.result, params, action, pos)>>)
              ELSE Return(<<>>)

\* faulty variant: return_exceptions=True, a failed child is a result like another
GatherDoneCallback_ReturnExceptions(o, child) ==
    LET n == o.nfinished + 1 IN
    IF o.st # "pending" THEN [o EXCEPT !.nfinished = n]
    ELSE IF n = o.nfuts
         THEN [o EXCEPT !.nfinished = n, !.st = "result"]
         ELSE [o EXCEPT !.nfinished = n]

\* faulty variant: the join is over with the first child that finishes
GatherDoneCallback_FirstCompleted(o, child) ==
    LET n == o.nfinished + 1 IN
    IF o.st # "pending" THEN [o EXCEPT !.nfinished = n]
    ELSE IF child.st \in {"failed", "cancelled"}
         THEN [o EXCEPT !.nfinished = n, !.st = "exception"]
         ELSE [o EXCEPT !.nfinished = n, !.st = "result"]

\* faulty variant: the count of finished children is compared one too far
GatherDoneCallback_OffByOne(o, child) ==
    LET n == o.nfinished + 1 IN
    IF o.st # "pending" THEN [o EXCEPT !.nfinished = n]
    ELSE IF child.st \in {"failed", "cancelled"}
         THEN [o EXCEPT !.nfinished = n, !.st = "exception"]
         ELSE IF n = o.nfuts + 1
              THEN [o EXCEPT !.nfinished = n, !.st = "result"]
              ELSE [o EXCEPT !.nfinished = n]

\* gather: its callback on a finished child, applied to the outer future
GatherDoneCallback(o, child) ==
    LET n == o.nfinished + 1 IN
    IF o.st # "pending" THEN [o EXCEPT !.nfinished = n]
    ELSE IF child.st \in {"failed", "cancelled"}
         THEN [o EXCEPT !.nfinished = n, !.st = "exception"]
         ELSE IF n = o.nfuts
              THEN [o EXCEPT !.nfinished = n, !.st = "result"]
              ELSE [o EXCEPT !.nfinished = n]

\* faulty variant: only the first child is started
GatherSchedule_OnlyFirst(n) == <<StepEntry(1, Unset)>>

\* gather: the first steps it schedules, one per child, in the order of the arguments
GatherSchedule(n) == [i \in 1..n |-> StepEntry(i, Unset)]

RECURSIVE BuildAggregated_FirstWins(_)
\* faulty variant: a Result does not replace the entry of its action
BuildAggregated_FirstWins(results_list) ==
    IF results_list = <<>> THEN EmptyDict
    ELSE LET n      == Len(results_list)
             result == results_list[n]
             front  == BuildAggregated_FirstWins(SubSeq(results_list, 1, n - 1)) IN
         IF "action" \in DOMAIN result /\ result.action \notin DOMAIN front
         THEN DictSet(front, result.action, result)
         ELSE front

RECURSIVE BuildAggregated_ByAgent(_)
\* faulty variant: a Result is keyed by the name of the agent that produced it
BuildAggregated_ByAgent(results_list) ==
    IF results_list = <<>> THEN EmptyDict
    ELSE LET n      == Len(results_list)
             result == results_list[n]
             front  == BuildAggregated_ByAgent(SubSeq(results_list, 1, n - 1)) IN
         IF "action" \in DOMAIN result
         THEN DictSet(front, result.agent, result)
         ELSE front

RECURSIVE BuildAggregated(_)
\* {result["action"]: result for result in results_list if "action" in result}
BuildAggregated(results_list) ==
    IF results_list = <<>> THEN EmptyDict
    ELSE LET n      == Len(results_list)
             result == results_list[n]
             front  == BuildAggregated(SubSeq(results_list, 1, n - 1)) IN
         IF "action" \in DOMAIN result
         THEN DictSet(front, result.action, result)
         ELSE front

\* the outcomes an oracle call of caller c can have
Outcomes(c) ==
    IF c = MainId /\ mainPc = "parse_wait"
    THEN {Response(text) : text \in PlanTexts} \cup {OracleError}
    ELSE {Response(text) : text \in OracleTexts} \cup {OracleError}

\* what the prompt of a provider's oracle call is built from: the instruction of
\* the provider and the fields of params it interpolates
Prompt(agent, params) ==
    CASE agent.cls = "SummarizerAgent" ->
           [ask |-> "summary", text |-> DictGet(params, "text", JStr("")),
            target_language |-> None]
      [] agent.cls = "EntityExtractorAgent" ->
           [ask |-> "entities", text |-> DictGet(params, "text", JStr("")),
            target_language |-> None]
      [] agent.cls = "TranslatorAgent" ->
           [ask |-> "translation", text |-> DictGet(params, "text", JStr("")),
            target_language |-> DictGet(params, "target_language", JStr("en"))]

\* the prompt of the formatter: its instruction around json.dumps(aggregated)
FormatterPrompt(value) == [ask |-> "format", text |-> value, target_language |-> None]

\* a deterministic oracle: the text it answers is a function of the prompt
Oracle(prompt) ==
    CASE prompt.ask = "format" ->
           IF "summarize" \in DOMAIN prompt.text.o THEN EntitiesText ELSE AlphaText
      [] prompt.ask = "entities" -> EntitiesText
      [] OTHER ->
           IF prompt.text = JStr("Steve and Mary are going to the theater")
           THEN AlphaText
           ELSE EntitiesText

\* the outcome of the oracle call of caller c when the oracle is deterministic; the
\* three requests of main have three prompts, so the plans answered are unrelated
DetOutcomes(c) ==
    IF <<c, "running">> \notin threads THEN {}
    ELSE IF c = MainId
         THEN IF mainPc = "parse_wait"
              THEN {Response(text) : text \in PlanTexts}
              ELSE {Response(Oracle(FormatterPrompt(aggregated)))}
         ELSE {Response(Oracle(Prompt(tasks[c].agent, tasks[c].params)))}

(***************************************************************************)
(* The main task: main() and, inlined where it is awaited, dispatch,       *)
(* parse_natural_language_request and final_formatter.run.  It runs from   *)
(* one suspension to the next without any other callback of the loop.      *)
(***************************************************************************)
\* the main task ends with an exception: asyncio.run stops the loop
MainRaises(queue) ==
    /\ mainPc' = "crashed"
    /\ ready' = Append(queue, StopEntry)

\* main: the for loop takes the next request and calls dispatch, which calls the parser,
\* which issues its oracle call and suspends
DispatchCall ==
    /\ mainPc = "loop"
    /\ reqIdx <= NumRequests
    /\ \E st \in {"running", "hung"} : threads' = threads \cup {<<MainId, st>>}
    /\ mainPc' = "parse_wait"
    /\ dispStatus' = "running"
    /\ json_text' = <<>>
    /\ plan' = Unset
    /\ items' = <<>>
    /\ k' = 1
    /\ tasks' = <<>>
    /\ outer' = NoOuter
    /\ aggregated' = Unset
    /\ final_text_result' = Unset
    /\ formatCalls' = 0
    /\ oracleCalls' = [parse |-> 1, format |-> 0]
    /\ order' = <<>>
    /\ UNCHANGED <<action_to_agent, reqIdx, ready, batchLeft, stopping, loop>>

\* main: no request is left, main returns
MainReturn ==
    /\ mainPc = "loop"
    /\ reqIdx > NumRequests
    /\ mainPc' = "done"
    /\ ready' = Append(ready, StopEntry)
    /\ UNCHANGED <<action_to_agent, reqIdx, json_text, plan, items, k, tasks, outer,
                   aggregated, final_text_result, batchLeft, stopping, loop, threads,
                   dispStatus, formatCalls, oracleCalls, order>>

\* dispatch: the parser has returned plan; the for loop evaluates what it iterates
IterPlan ==
    /\ mainPc = "parsed"
    /\ LET r == IterTasks(plan) IN
         IF r.kind = "raise"
         THEN /\ MainRaises(ready)
              /\ dispStatus' = "failed"
              /\ UNCHANGED items
         ELSE /\ items' = r.result
              /\ mainPc' = "resolve"
              /\ UNCHANGED <<ready, dispStatus>>
    /\ UNCHANGED <<action_to_agent, reqIdx, json_text, plan, k, tasks, outer, aggregated,
                   final_text_result, batchLeft, stopping, loop, threads, formatCalls,
                   oracleCalls, order>>

\* faulty variant: the lookup is action_to_agent.setdefault(action), which binds an
\* action that is no key to None
ResolveNext_SetDefault ==
    /\ mainPc = "resolve"
    /\ k <= Len(items)
    /\ LET r      == ResolveTask(action_to_agent, items[k], k)
           action == IF items[k].t = "obj" THEN DictGet(items[k], "action", None) ELSE None IN
         /\ IF r.kind = "raise"
            THEN /\ MainRaises(ready)
                 /\ dispStatus' = "failed"
                 /\ UNCHANGED <<tasks, k>>
            ELSE /\ tasks' = tasks \o r.result
                 /\ k' = k + 1
                 /\ UNCHANGED <<mainPc, ready, dispStatus>>
         /\ action_to_agent' =
                IF r.kind = "return" /\ action.t = "str" /\ action.s \notin DOMAIN action_to_agent
                THEN DictSet(action_to_agent, action.s, None)
                ELSE action_to_agent
    /\ UNCHANGED <<reqIdx, json_text, plan, items, outer, aggregated,
                   final_text_result, batchLeft, stopping, loop, threads, formatCalls,
                   oracleCalls, order>>

\* dispatch: one iteration of the for loop
ResolveNext ==
    /\ mainPc = "resolve"
    /\ k <= Len(items)
    /\ LET r == ResolveTask(action_to_agent, items[k], k) IN
         IF r.kind = "raise"
         THEN /\ MainRaises(ready)
              /\ dispStatus' = "failed"
              /\ UNCHANGED <<tasks, k>>
         ELSE /\ tasks' = tasks \o r.result
              /\ k' = k + 1
              /\ UNCHANGED <<mainPc, ready, dispStatus>>
    /\ UNCHANGED <<action_to_agent, reqIdx, json_text, plan, items, outer, aggregated,
                   final_text_result, batchLeft, stopping, loop, threads, formatCalls,
                   oracleCalls, order>>

\* dispatch: await asyncio.gather(*tasks) with at least one coroutine: every coroutine
\* becomes a Task whose first step is scheduled, and dispatch suspends
GatherCall ==
    /\ mainPc = "resolve"
    /\ k > Len(items)
    /\ tasks # <<>>
    /\ tasks' = [i \in 1..Len(tasks) |-> [tasks[i] EXCEPT !.st = "scheduled"]]
    /\ ready' = ready \o GatherSchedule(Len(tasks))
    /\ outer' = [st |-> "pending", nfinished |-> 0, nfuts |-> Len(tasks)]
    /\ mainPc' = "gather_wait"
    /\ UNCHANGED <<action_to_agent, reqIdx, json_text, plan, items, k, aggregated,
                   final_text_result, batchLeft, stopping, loop, threads, dispStatus,
                   formatCalls, oracleCalls, order>>

\* dispatch: await asyncio.gather() of nothing: the future is already done, dispatch
\* goes on without suspending
GatherNothing ==
    /\ mainPc = "resolve"
    /\ k > Len(items)
    /\ tasks = <<>>
    /\ outer' = [st |-> "result", nfinished |-> 0, nfuts |-> 0]
    /\ mainPc' = "aggregate"
    /\ UNCHANGED <<action_to_agent, reqIdx, json_text, plan, items, k, tasks, aggregated,
                   final_text_result, ready, batchLeft, stopping, loop, threads,
                   dispStatus, formatCalls, oracleCalls, order>>

\* faulty variant: the results are aggregated in the order in which the tasks completed
Aggregate_CompletionOrder ==
    /\ mainPc = "aggregate"
    /\ aggregated' = JObj(BuildAggregated([n \in 1..Len(order) |-> tasks[order[n]].res]))
    /\ dispStatus' = "returned"
    /\ mainPc' = "format"
    /\ UNCHANGED <<action_to_agent, reqIdx, json_text, plan, items, k, tasks, outer,
                   final_text_result, ready, batchLeft, stopping, loop, threads,
                   formatCalls, oracleCalls, order>>

\* dispatch: the results of gather, in the order of its arguments, are aggregated and
\* returned to main
Aggregate ==
    /\ mainPc = "aggregate"
    /\ aggregated' = JObj(BuildAggregated([i \in 1..Len(tasks) |-> tasks[i].res]))
    /\ dispStatus' = "returned"
    /\ mainPc' = "format"
    /\ UNCHANGED <<action_to_agent, reqIdx, json_text, plan, items, k, tasks, outer,
                   final_text_result, ready, batchLeft, stopping, loop, threads,
                   formatCalls, oracleCalls, order>>

\* main: final_formatter.run({"aggregated": aggregated_result}) up to its oracle call
FormatCall ==
    /\ mainPc = "format"
    /\ formatCalls' = formatCalls + 1
    /\ LET r == FinalFormatterAgent_run(final_formatter, FormatterParams(aggregated)) IN
         IF r.kind = "return"
         THEN /\ final_text_result' = r.result
              /\ mainPc' = "print"
              /\ UNCHANGED <<threads, oracleCalls>>
         ELSE /\ \E st \in {"running", "hung"} : threads' = threads \cup {<<MainId, st>>}
              /\ oracleCalls' = [oracleCalls EXCEPT !.format = @ + 1]
              /\ mainPc' = "format_wait"
              /\ UNCHANGED final_text_result
    /\ UNCHANGED <<action_to_agent, reqIdx, json_text, plan, items, k, tasks, outer,
                   aggregated, ready, batchLeft, stopping, loop, dispStatus, order>>

\* main: the formatted text is printed and the for loop goes on
PrintResult ==
    /\ mainPc = "print"
    /\ reqIdx' = reqIdx + 1
    /\ mainPc' = "loop"
    /\ UNCHANGED <<action_to_agent, json_text, plan, items, k, tasks, outer, aggregated,
                   final_text_result, ready, batchLeft, stopping, loop, threads,
                   dispStatus, formatCalls, oracleCalls, order>>

(***************************************************************************)
(* Worker threads: asyncio.to_thread(client.chat.complete, ...).           *)
(***************************************************************************)
\* the oracle call of caller c is over: its outcome is handed to the loop
ThreadFinishes(c, out) ==
    /\ <<c, "running">> \in threads
    /\ out \in Outcomes(c)
    /\ threads' = threads \ {<<c, "running">>}
    /\ ready' = IF loop = "running" THEN Append(ready, SetEntry(c, out)) ELSE ready
    /\ UNCHANGED <<action_to_agent, reqIdx, mainPc, json_text, plan, items, k, tasks,
                   outer, aggregated, final_text_result, batchLeft, stopping, loop,
                   dispStatus, formatCalls, oracleCalls, order>>

(***************************************************************************)
(* The event loop: it runs the callbacks of ready one at a time, in        *)
(* iterations of the callbacks that were ready when the iteration began.   *)
(***************************************************************************)
\* the loop may run the oldest callback
LoopRuns(kind) ==
    /\ loop = "running"
    /\ mainPc \in Suspended \cup {"done", "crashed"}
    /\ ready # <<>>
    /\ ~(stopping /\ batchLeft = 0)
    /\ Head(ready).k = kind
    /\ batchLeft' = (IF batchLeft = 0 THEN Len(ready) ELSE batchLeft) - 1

\* the future of an oracle call receives the outcome: its waiter is woken up
SetFuture ==
    /\ LoopRuns("set")
    /\ ready' = Append(Tail(ready), StepEntry(Head(ready).c, Head(ready).out))
    /\ UNCHANGED <<action_to_agent, reqIdx, mainPc, json_text, plan, items, k, tasks,
                   outer, aggregated, final_text_result, stopping, loop, threads,
                   dispStatus, formatCalls, oracleCalls, order>>

\* task i ends with result or exception r: gather's callback on it is scheduled
TaskEnds(i, r, queue) ==
    /\ tasks' = [tasks EXCEPT ![i].st = IF r.kind = "return" THEN "done" ELSE "failed",
                              ![i].res = IF r.kind = "return" THEN r.result ELSE Unset]
    /\ ready' = Append(queue, DoneEntry(i))
    /\ order' = Append(order, i)

\* first step of a Task of gather: agent.run(params) up to its first suspension
TaskStart ==
    /\ LoopRuns("step")
    /\ LET i == Head(ready).c IN
         /\ i # MainId
         /\ tasks[i].st = "scheduled"
         /\ LET r == AgentRun(tasks[i].agent, tasks[i].params) IN
              IF r.kind = "await"
              THEN /\ \E st \in {"running", "hung"} : threads' = threads \cup {<<i, st>>}
                   /\ tasks' = [tasks EXCEPT ![i].st = "waiting", ![i].ncalls = @ + 1]
                   /\ ready' = Tail(ready)
                   /\ UNCHANGED order
              ELSE /\ TaskEnds(i, r, Tail(ready))
                   /\ UNCHANGED threads
    /\ UNCHANGED <<action_to_agent, reqIdx, mainPc, json_text, plan, items, k, outer,
                   aggregated, final_text_result, stopping, loop, dispStatus,
                   formatCalls, oracleCalls>>

\* a Task of gather is resumed with the outcome of its oracle call and runs to its end
TaskResume ==
    /\ LoopRuns("step")
    /\ LET i == Head(ready).c IN
         /\ i # MainId
         /\ tasks[i].st = "waiting"
         /\ TaskEnds(i, AgentResume(tasks[i].agent, Head(ready).out), Tail(ready))
    /\ UNCHANGED <<action_to_agent, reqIdx, mainPc, json_text, plan, items, k, outer,
                   aggregated, final_text_result, stopping, loop, threads, dispStatus,
                   formatCalls, oracleCalls>>

\* faulty variant: when a child fails the join cancels the children still pending, as a
\* TaskGroup does
GatherChildDone_CancelSiblings ==
    /\ LoopRuns("done_cb")
    /\ outer' = GatherDoneCallback(outer, tasks[Head(ready).c])
    /\ ready' = IF outer.st = "pending" /\ outer'.st # "pending"
                THEN Append(Tail(ready), StepEntry(MainId, Unset))
                ELSE Tail(ready)
    /\ tasks' = IF outer.st = "pending" /\ outer'.st = "exception"
                THEN [i \in 1..Len(tasks) |->
                        IF tasks[i].st \in {"scheduled", "waiting"}
                        THEN [tasks[i] EXCEPT !.st = "cancelled"]
                        ELSE tasks[i]]
                ELSE tasks
    /\ UNCHANGED <<action_to_agent, reqIdx, mainPc, json_text, plan, items, k,
                   aggregated, final_text_result, stopping, loop, threads, dispStatus,
                   formatCalls, oracleCalls, order>>

\* gather's callback on a finished child; the outer future, once done, wakes dispatch up
GatherChildDone ==
    /\ LoopRuns("done_cb")
    /\ outer' = GatherDoneCallback(outer, tasks[Head(ready).c])
    /\ ready' = IF outer.st = "pending" /\ outer'.st # "pending"
                THEN Append(Tail(ready), StepEntry(MainId, Unset))
                ELSE Tail(ready)
    /\ UNCHANGED <<action_to_agent, reqIdx, mainPc, json_text, plan, items, k, tasks,
                   aggregated, final_text_result, stopping, loop, threads, dispStatus,
                   formatCalls, oracleCalls, order>>

\* faulty variant: on a JSONDecodeError the parser asks the oracle again
ParseResume_Retry ==
    /\ LoopRuns("step")
    /\ Head(ready).c = MainId
    /\ mainPc = "parse_wait"
    /\ LET response == Head(ready).out IN
         IF ~response.ok
         THEN /\ MainRaises(Tail(ready))
              /\ dispStatus' = "failed"
              /\ UNCHANGED <<json_text, plan, threads, oracleCalls>>
         ELSE IF ~json_loads(Strip(response.content)).ok
              THEN /\ json_text' = Strip(response.content)
                   /\ threads' = threads \cup {<<MainId, "running">>}
                   /\ oracleCalls' = [oracleCalls EXCEPT !.parse = @ + 1]
                   /\ ready' = Tail(ready)
                   /\ UNCHANGED <<mainPc, plan, dispStatus>>
              ELSE /\ json_text' = Strip(response.content)
                   /\ plan' = PlanOf[Strip(response.content)]
                   /\ mainPc' = "parsed"
                   /\ ready' = Tail(ready)
                   /\ UNCHANGED <<dispStatus, threads, oracleCalls>>
    /\ UNCHANGED <<action_to_agent, reqIdx, items, k, tasks, outer, aggregated,
                   final_text_result, stopping, loop, formatCalls, order>>

\* the parser is resumed with the outcome of its oracle call: json.loads, with the
\* empty plan on a JSONDecodeError
ParseResume ==
    /\ LoopRuns("step")
    /\ Head(ready).c = MainId
    /\ mainPc = "parse_wait"
    /\ LET response == Head(ready).out IN
         IF ~response.ok
         THEN /\ MainRaises(Tail(ready))
              /\ dispStatus' = "failed"
              /\ UNCHANGED <<json_text, plan>>
         ELSE /\ json_text' = Strip(response.content)
              /\ plan' = PlanOf[Strip(response.content)]
              /\ mainPc' = "parsed"
              /\ ready' = Tail(ready)
              /\ UNCHANGED dispStatus
    /\ UNCHANGED <<action_to_agent, reqIdx, items, k, tasks, outer, aggregated,
                   final_text_result, stopping, loop, threads, formatCalls, oracleCalls,
                   order>>

\* dispatch is resumed by gather's future: its exception propagates, or its result is
\* ready to be aggregated
GatherResume ==
    /\ LoopRuns("step")
    /\ Head(ready).c = MainId
    /\ mainPc = "gather_wait"
    /\ IF outer.st = "exception"
       THEN /\ MainRaises(Tail(ready))
            /\ dispStatus' = "failed"
       ELSE /\ mainPc' = "aggregate"
            /\ ready' = Tail(ready)
            /\ UNCHANGED dispStatus
    /\ UNCHANGED <<action_to_agent, reqIdx, json_text, plan, items, k, tasks, outer,
                   aggregated, final_text_result, stopping, loop, threads, formatCalls,
                   oracleCalls, order>>

\* faulty variant: the formatter numbers its answers, a state kept between invocations
FormatResume_Numbered ==
    /\ LoopRuns("step")
    /\ Head(ready).c = MainId
    /\ mainPc = "format_wait"
    /\ LET r == FinalFormatterAgent_resume(final_formatter, Head(ready).out) IN
         IF r.kind = "raise"
         THEN /\ MainRaises(Tail(ready))
              /\ UNCHANGED final_text_result
         ELSE /\ final_text_result' =
                    [r.result EXCEPT !.formatted_text = Append(@, TNum(reqIdx))]
              /\ mainPc' = "print"
              /\ ready' = Tail(ready)
    /\ UNCHANGED <<action_to_agent, reqIdx, json_text, plan, items, k, tasks, outer,
                   aggregated, stopping, loop, threads, dispStatus, formatCalls,
                   oracleCalls, order>>

\* the formatter is resumed with the outcome of its oracle call
FormatResume ==
    /\ LoopRuns("step")
    /\ Head(ready).c = MainId
    /\ mainPc = "format_wait"
    /\ LET r == FinalFormatterAgent_resume(final_formatter, Head(ready).out) IN
         IF r.kind = "raise"
         THEN /\ MainRaises(Tail(ready))
              /\ UNCHANGED final_text_result
         ELSE /\ final_text_result' = r.result
              /\ mainPc' = "print"
              /\ ready' = Tail(ready)
    /\ UNCHANGED <<action_to_agent, reqIdx, json_text, plan, items, k, tasks, outer,
                   aggregated, stopping, loop, threads, dispStatus, formatCalls,
                   oracleCalls, order>>

\* asyncio.run: the main task is over, the loop is asked to stop
StopRequested ==
    /\ LoopRuns("stop")
    /\ stopping' = TRUE
    /\ ready' = Tail(ready)
    /\ UNCHANGED <<action_to_agent, reqIdx, mainPc, json_text, plan, items, k, tasks,
                   outer, aggregated, final_text_result, loop, threads, dispStatus,
                   formatCalls, oracleCalls, order>>

\* asyncio.run: the loop has stopped at the end of its iteration; the Tasks still
\* pending are cancelled and the loop is closed
Teardown ==
    /\ loop = "running"
    /\ stopping
    /\ batchLeft = 0
    /\ tasks' = [i \in 1..Len(tasks) |->
                    IF tasks[i].st \in {"scheduled", "waiting"}
                    THEN [tasks[i] EXCEPT !.st = "cancelled"]
                    ELSE tasks[i]]
    /\ ready' = <<>>
    /\ loop' = "closed"
    /\ UNCHANGED <<action_to_agent, reqIdx, mainPc, json_text, plan, items, k, outer,
                   aggregated, final_text_result, batchLeft, stopping, threads,
                   dispStatus, formatCalls, oracleCalls, order>>

Next ==
    \/ DispatchCall
    \/ MainReturn
    \/ IterPlan
    \/ ResolveNext
    \/ GatherCall
    \/ GatherNothing
    \/ Aggregate
    \/ FormatCall
    \/ PrintResult
    \/ \E c \in 0..Len(tasks) : \E out \in Outcomes(c) : ThreadFinishes(c, out)
    \/ SetFuture
    \/ TaskStart
    \/ TaskResume
    \/ GatherChildDone
    \/ ParseResume
    \/ GatherResume
    \/ FormatResume
    \/ StopRequested
    \/ Teardown

Spec == Init /\ [][Next]_vars

DetNext ==
    \/ DispatchCall
    \/ MainReturn
    \/ IterPlan
    \/ ResolveNext
    \/ GatherCall
    \/ GatherNothing
    \/ Aggregate
    \/ FormatCall
    \/ PrintResult
    \/ \E c \in 0..Len(tasks) : \E out \in DetOutcomes(c) : ThreadFinishes(c, out)
    \/ SetFuture
    \/ TaskStart
    \/ TaskResume
    \/ GatherChildDone
    \/ ParseResume
    \/ GatherResume
    \/ FormatResume
    \/ StopRequested
    \/ Teardown

\* the program with a deterministic oracle: the same prompt always yields the same
\* text (an oracle call may still never return)
DetSpec == Init /\ [][DetNext]_vars

\* the program with a dispatcher constructed on any of AgentLists
AnyAgentsSpec == (\E agents \in AgentLists : Construct(agents)) /\ [][Next]_vars

\* what the fair scheduling of the loop's callbacks and of the worker threads adds: a
\* step that stays possible is eventually taken (an oracle call that never returns is
\* a thread marked "hung", which has no step)
FairSpec == Spec /\ WF_vars(Next)

(***************************************************************************)
(* Properties.                                                             *)
(***************************************************************************)
\* the tasks of the current cycle
TaskIds == 1..Len(tasks)

\* task i of the plan has the shape of a Task: a mapping whose action is a string and
\* whose params, when present, is a mapping
IsTask(task) ==
    /\ task.t = "obj"
    /\ DictGet(task, "action", JStr("")).t = "str"
    /\ DictGet(task, "params", JObj(EmptyDict)).t = "obj"

\* v has the shape of a Plan: a mapping with a list of Tasks under "tasks"
IsPlan(v) ==
    /\ v.t = "obj"
    /\ "tasks" \in DOMAIN v.o
    /\ v.o["tasks"].t = "list"
    /\ \A n \in 1..Len(v.o["tasks"].l) : IsTask(v.o["tasks"].l[n])

\* text is the text of a well-formed plan
IsPlanText(text) == json_loads(text).ok /\ IsPlan(json_loads(text).val)

\* C1: whenever the parser has returned on a text that is no well-formed plan (no JSON,
\* JSON of another shape, or a root that is no object), what it returned is the empty
\* plan: a mapping whose tasks are the empty list.
C1_MalformedGivesEmptyPlan ==
    (mainPc = "parsed" /\ ~IsPlanText(json_text))
        => (plan.t = "obj" /\ DictGet(plan, "tasks", JList(<<>>)) = JList(<<>>))

\* C2: a cycle in which a launched provider invocation has failed never yields an
\* Aggregate, and once dispatch has been resumed from its join it has failed as a whole.
C2_FailedTaskFailsDispatch ==
    (\E i \in TaskIds : tasks[i].st = "failed")
        => /\ dispStatus \in {"running", "failed"}
           /\ aggregated = Unset
           /\ mainPc \in {"gather_wait", "crashed"}
           /\ (mainPc = "crashed" => dispStatus = "failed")

\* a cycle has failed on one provider invocation although another one produced its Result
C2_Witness ==
    /\ dispStatus = "failed"
    /\ \E i, j \in TaskIds : tasks[i].st = "failed" /\ tasks[j].st = "done"

\* position of task i in the order of completion
CompletedAt(i) == CHOOSE n \in 1..Len(order) : order[n] = i

\* the tasks of the cycle created for action a
TasksOf(a) == {i \in TaskIds : tasks[i].action = JStr(a)}

Registered(task) ==
    LET action == DictGet(task, "action", None) IN
    /\ action.t = "str"
    /\ action.s \in DOMAIN action_to_agent
    /\ action_to_agent[action.s] # None

\* the positions of the plan the for loop has been through whose action is registered
ResolvedPositions == {n \in 1..Len(items) : n < k /\ Registered(items[n])}

\* C4: on a plan of Tasks, the coroutines dispatch holds are exactly those of the tasks
\* whose action is registered, each with the provider of its action and its params (none
\* for a task without provider); all of them are launched by the join; dispatch fails
\* only if a launched invocation failed; and the Aggregate returned has an entry for
\* exactly the registered actions of the plan.
C4_UnknownActionsDropped ==
    (plan # Unset /\ IsPlan(plan)) =>
        /\ {tasks[i].pos : i \in TaskIds} = ResolvedPositions
        /\ Len(tasks) = Cardinality(ResolvedPositions)
        /\ \A i \in TaskIds :
             /\ tasks[i].agent = action_to_agent[tasks[i].action.s]
             /\ tasks[i].action = DictGet(items[tasks[i].pos], "action", None)
             /\ tasks[i].params = DictGet(items[tasks[i].pos], "params", JObj(EmptyDict))
        /\ (mainPc # "resolve" => \A i \in TaskIds : tasks[i].st # "created")
        /\ (dispStatus = "failed" => \E i \in TaskIds : tasks[i].st = "failed")
        /\ (dispStatus = "returned" =>
              DOMAIN aggregated.o = {items[n].o["action"].s : n \in ResolvedPositions})

\* dispatch has returned on a plan in which a task without provider stands between two
\* tasks with one
C4_Witness ==
    /\ dispStatus = "returned"
    /\ IsPlan(plan)
    /\ \E n1, n2, n3 \in 1..Len(items) :
         /\ n1 < n2 /\ n2 < n3
         /\ Registered(items[n1]) /\ ~Registered(items[n2]) /\ Registered(items[n3])
    /\ Cardinality(DOMAIN aggregated.o) = 2

\* task i is suspended on its oracle call
Suspends(i) == tasks[i].st = "waiting"

\* C5: no task waits for another one to be launched: the coroutines are all created
\* before any runs, and as long as a task of the cycle has not had its first step, every
\* task that issued an oracle call is still suspended on it (none has been resumed).
C5_LaunchedWithoutWaiting ==
    /\ \A i, j \in TaskIds : tasks[i].st = "created" => tasks[j].st = "created"
    /\ \A i, j \in TaskIds :
         (tasks[i].st = "scheduled" /\ tasks[j].ncalls > 0) => Suspends(j)

\* two invocations are in flight at the same time
C5_Witness ==
    \E i, j \in TaskIds :
        /\ i # j
        /\ Suspends(i) /\ Suspends(j)
        /\ <<i, "running">> \in threads /\ <<j, "running">> \in threads

\* C6: when dispatch builds the Aggregate, and from then on, every task launched in the
\* cycle has completed with its Result and no oracle call of a task is in progress.
C6_JoinIsBarrier ==
    (mainPc = "aggregate" \/ dispStatus = "returned") =>
        \A i \in TaskIds :
            /\ tasks[i].st = "done"
            /\ tasks[i].res # Unset
            /\ \A st \in {"running", "hung"} : <<i, st>> \notin threads

\* dispatch is about to aggregate several Results, one of them awaited from the oracle
C6_Witness ==
    /\ mainPc = "aggregate"
    /\ Len(tasks) >= 2
    /\ \E i \in TaskIds : tasks[i].ncalls > 0
    /\ \E i \in TaskIds : tasks[i].ncalls = 0

\* the processing of the current request is over: dispatch returned and the text is
\* to be printed, or dispatch failed on a provider invocation
C7_RequestOver ==
    \/ mainPc = "print"
    \/ /\ mainPc = "crashed"
       /\ dispStatus = "failed"
       /\ \E i \in TaskIds : tasks[i].st = "failed"

\* C7: the Final Formatter is invoked only after dispatch has completed and with no task
\* of the fan-out pending, and when the processing of a request is over, whatever the
\* outcome of dispatch, it has been invoked exactly once.
C7_FormatterOncePerRequest ==
    /\ formatCalls <= 1
    /\ formatCalls = 1 =>
         /\ dispStatus = "returned"
         /\ \A i \in TaskIds : tasks[i].st = "done"
    /\ C7_RequestOver => formatCalls = 1

\* the plan has no task, or only tasks whose action has no provider
C8_NothingResolved ==
    /\ plan # Unset
    /\ plan.t = "obj"
    /\ DictGet(plan, "tasks", JList(<<>>)).t = "list"
    /\ \A n \in 1..Len(DictGet(plan, "tasks", JList(<<>>)).l) :
         LET task == DictGet(plan, "tasks", JList(<<>>)).l[n] IN
         IsTask(task) /\ ~Registered(task)

\* C8: on a plan with nothing to run, dispatch neither fails nor suspends on a join and
\* returns the empty Aggregate, and the formatter, run once, returns the placeholder
\* without an oracle call; so does the formatter on any empty or absent Aggregate.
C8_NothingToFormat ==
    /\ C8_NothingResolved =>
         /\ dispStatus # "failed"
         /\ mainPc \notin {"gather_wait", "format_wait", "crashed"}
         /\ (dispStatus = "returned" => aggregated = JObj(EmptyDict))
    /\ (mainPc = "print" /\ ~Truthy(aggregated)) =>
         /\ formatCalls = 1
         /\ oracleCalls.format = 0
         /\ final_text_result.formatted_text = PlaceholderText
    /\ \A params \in {JObj(EmptyDict), FormatterParams(None)} :
         /\ FinalFormatterAgent_run(final_formatter, params).kind = "return"
         /\ FinalFormatterAgent_run(final_formatter, params).result.formatted_text
                = PlaceholderText

\* a request whose plan holds only tasks without provider has been formatted
C8_Witness ==
    /\ mainPc = "print"
    /\ C8_NothingResolved
    /\ Len(items) >= 2
    /\ aggregated = JObj(EmptyDict)
    /\ final_text_result.formatted_text = PlaceholderText

\* params is a mapping whose text is absent or empty
NoText(params) ==
    /\ params.t = "obj"
    /\ ("text" \notin DOMAIN params.o \/ params.o["text"] = JStr(""))

\* the Result of a provider on params without text
DegenerateResult(agent) ==
    CASE agent.cls = "SummarizerAgent" ->
           [agent |-> agent.name, action |-> "summarize", summary |-> <<>>]
      [] agent.cls = "EntityExtractorAgent" ->
           [agent |-> agent.name, action |-> "entity_extraction", entities |-> <<>>]
      [] agent.cls = "TranslatorAgent" ->
           [agent |-> agent.name, action |-> "translate", translated_text |-> <<>>]

\* C9: a summarizer, entity extractor or translator run on params whose text is absent
\* or empty has, once started, returned its degenerate Result: it did not raise, issued
\* no oracle call and never suspended.
C9_DegenerateInput ==
    \A i \in TaskIds :
        ( /\ tasks[i].agent.cls \in {"SummarizerAgent", "EntityExtractorAgent", "TranslatorAgent"}
          /\ NoText(tasks[i].params)
          /\ tasks[i].st \notin {"created", "scheduled"} )
        => /\ tasks[i].st = "done"
           /\ tasks[i].res = DegenerateResult(tasks[i].agent)
           /\ tasks[i].ncalls = 0
           /\ \A st \in {"running", "hung"} : <<i, st>> \notin threads

\* the three providers have each returned on params without text: an empty text, params
\* without text and no params at all
C9_Witness ==
    /\ \A cls \in {"SummarizerAgent", "EntityExtractorAgent", "TranslatorAgent"} :
         \E i \in TaskIds :
            /\ tasks[i].agent.cls = cls
            /\ NoText(tasks[i].params)
            /\ tasks[i].st = "done"
    /\ \E i \in TaskIds : tasks[i].params = JObj(EmptyDict)
    /\ \E i \in TaskIds : "text" \in DOMAIN tasks[i].params.o

\* the oracle call of a launched task never returns
C10_HungTask == \E i \in TaskIds : <<i, "hung">> \in threads

\* an oracle call of the cycle never returns
C10_HungCall == \E c \in 0..Len(tasks) : <<c, "hung">> \in threads

\* C10 as claimed: while the oracle call of a launched task never returns, dispatch
\* neither returns nor fails.
C10_HungBlocksDispatch == C10_HungTask => dispStatus = "running"

\* C10 as amended: while the oracle call of a launched task never returns, dispatch never
\* returns an Aggregate, and it fails only when another launched task has failed; and a
\* dispatch cycle all of whose oracle calls return or fail eventually returns or fails.
C10_NoTimeout ==
    /\ [](C10_HungTask =>
            /\ dispStatus \in {"running", "failed"}
            /\ dispStatus = "failed" => \E i \in TaskIds : tasks[i].st = "failed")
    /\ (dispStatus = "running") ~> (dispStatus \in {"returned", "failed"} \/ C10_HungCall)

\* dispatch has failed on one task while the oracle call of another one never returns
C10_Witness ==
    /\ dispStatus = "failed"
    /\ \E i, j \in TaskIds : <<i, "hung">> \in threads /\ tasks[j].st = "failed"

\* the text the formatter returns on an Aggregate when the oracle is deterministic: the
\* placeholder, or the stripped answer to the prompt made of that Aggregate
FormattedText(value) ==
    IF ~Truthy(value) THEN PlaceholderText ELSE Strip(Oracle(FormatterPrompt(value)))

\* C11: with a deterministic oracle the text the formatter returns is a function of the
\* Aggregate it was given and of nothing else, so that any two invocations on the same
\* Aggregate return the same text; and an invocation of the formatter, from its call to
\* its return, leaves the Aggregate as it was.
C11_FormatterIdempotent ==
    /\ [](mainPc = "print" => final_text_result.formatted_text = FormattedText(aggregated))
    /\ [][(mainPc \in {"format", "format_wait"}) => (aggregated' = aggregated)]_vars

\* the formatter has returned for a later request of the run, on an Aggregate that is
\* not empty and after its oracle call
C11_Witness ==
    /\ reqIdx >= 2
    /\ mainPc = "print"
    /\ Truthy(aggregated)
    /\ oracleCalls.format = 1
    /\ final_text_result.formatted_text = FormattedText(aggregated)

\* C12: in the Aggregate dispatch returns, every key maps to a Result of the cycle whose
\* action field is that key (so an action has one Result), and the keys are exactly the
\* action fields of the Results the tasks of the cycle produced.
C12_AggregateKeyedByAction ==
    dispStatus = "returned" =>
        /\ \A key \in DOMAIN aggregated.o :
             /\ aggregated.o[key].action = key
             /\ \E i \in TaskIds : aggregated.o[key] = tasks[i].res
        /\ DOMAIN aggregated.o = {tasks[i].res.action : i \in TaskIds}
        /\ Cardinality(DOMAIN aggregated.o) <= Len(tasks)

\* dispatch has returned an Aggregate of several actions built from more Results than it
\* has keys
C12_Witness ==
    /\ dispStatus = "returned"
    /\ Cardinality(DOMAIN aggregated.o) >= 2
    /\ Len(tasks) > Cardinality(DOMAIN aggregated.o)
    /\ \A key \in DOMAIN aggregated.o : aggregated.o[key].action = key

\* C13: the Result a resolved provider produced for a task carries the action of that
\* task, whatever the agents the dispatcher was constructed with.
C13_ResultActionIsTaskAction ==
    \A i \in TaskIds :
        tasks[i].st = "done" => tasks[i].res.action = tasks[i].action.s

\* C14: no step of the program changes the mapping of actions to providers built by the
\* constructor: not the parser's, not dispatch's, not a provider's, in any cycle.
C14_RegistryReadOnly == [][action_to_agent' = action_to_agent]_vars

\* in the third cycle of a run, whose plan has a task without provider, two provider
\* invocations are suspended on their oracle calls, with the registry the constructor built
C14_Witness ==
    /\ reqIdx = 3
    /\ mainPc = "gather_wait"
    /\ \E n \in 1..Len(items) : ~Registered(items[n])
    /\ \E i, j \in TaskIds : i # j /\ Suspends(i) /\ Suspends(j)
    /\ \E agents \in AgentLists : action_to_agent = Registry(agents)

\* the invocations of provider.run made for the task at position n of the plan
InvocationsOf(n) == {i \in TaskIds : tasks[i].pos = n}

\* C15: on a plan of Tasks, provider.run is invoked once for each task the for loop has
\* been through whose action resolves to a provider and never for another task, so that
\* once the loop is over there are as many invocations as resolved tasks; each of them
\* has been started when dispatch fails and has run to its end, once, when it returns.
C15_EachTaskConsumedOnce ==
    (plan # Unset /\ IsPlan(plan) /\ mainPc # "parsed") =>
        /\ \A n \in 1..Len(items) :
             Cardinality(InvocationsOf(n)) = IF n < k /\ Registered(items[n]) THEN 1 ELSE 0
        /\ (mainPc # "resolve" =>
              Len(tasks) = Cardinality({n \in 1..Len(items) : Registered(items[n])}))
        /\ (mainPc = "crashed" => \A i \in TaskIds : tasks[i].st \notin {"created", "scheduled"})
        /\ (dispStatus = "returned" =>
              /\ Len(order) = Len(tasks)
              /\ \A i \in TaskIds : Cardinality({n \in 1..Len(order) : order[n] = i}) = 1)

\* dispatch has returned on a plan with two tasks of one action and a dropped task: each
\* of the two had its own invocation, with its own oracle call
C15_Witness ==
    /\ dispStatus = "returned"
    /\ IsPlan(plan)
    /\ \E n \in 1..Len(items) : ~Registered(items[n])
    /\ \E i, j \in TaskIds :
         /\ i # j
         /\ tasks[i].action = tasks[j].action
         /\ tasks[i].ncalls = 1 /\ tasks[j].ncalls = 1

\* the oracle calls of caller c that are in progress or will never return
CallsInProgress(c) == {st \in {"running", "hung"} : <<c, st>> \in threads}

\* C16: in a cycle the parser has called the oracle once, whatever was answered; a
\* provider invocation has called it at most once: never for the web search, once for a
\* summarizer, entity extractor or translator started on a text that is not empty, also
\* when the call failed; and no caller has more than one call in progress.
C16_OracleCallAccounting ==
    /\ (dispStatus # "idle" => oracleCalls.parse = 1)
    /\ oracleCalls.format <= 1
    /\ \A c \in 0..Len(tasks) : Cardinality(CallsInProgress(c)) <= 1
    /\ \A i \in TaskIds :
         /\ tasks[i].ncalls <= 1
         /\ (tasks[i].agent.cls = "InternetSearchAgent" => tasks[i].ncalls = 0)
         /\ (tasks[i].ncalls = 0 => CallsInProgress(i) = {})
         /\ ( /\ tasks[i].agent.cls # "InternetSearchAgent"
              /\ tasks[i].st \notin {"created", "scheduled"}
              /\ tasks[i].params.t = "obj"
              /\ Truthy(DictGet(tasks[i].params, "text", JStr(""))) )
            => tasks[i].ncalls = 1

\* a cycle has failed on the oracle call of a provider, made once, beside a web search
\* that made none, after the one call of the parser
C16_Witness ==
    /\ dispStatus = "failed"
    /\ oracleCalls.parse = 1
    /\ \E i, j \in TaskIds :
         /\ tasks[i].st = "failed" /\ tasks[i].ncalls = 1
         /\ tasks[j].agent.cls = "InternetSearchAgent"
         /\ tasks[j].st = "done" /\ tasks[j].ncalls = 0

\* agent.run(params) run alone from its call to its return, with the deterministic oracle
RunToEnd(agent, params) ==
    LET r == AgentRun(agent, params) IN
    IF r.kind = "await"
    THEN AgentResume(agent, Response(Oracle(Prompt(agent, params))))
    ELSE r

RECURSIVE SequentialResults(_)
\* the Results of the first n items of the plan when their providers are run one after
\* the other, in the order of the plan
SequentialResults(n) ==
    IF n = 0 THEN <<>>
    ELSE LET r == ResolveTask(action_to_agent, items[n], n) IN
         IF r.kind = "return" /\ r.result # <<>>
         THEN Append(SequentialResults(n - 1),
                     RunToEnd(r.result[1].agent, r.result[1].params).result)
         ELSE SequentialResults(n - 1)

\* C17: with a deterministic oracle the Aggregate dispatch returns is the one a run of
\* the plan's tasks one after the other yields, whatever the order in which the
\* concurrent tasks completed: its keys are the actions of those Results and the entry of
\* an action is the Result of the last task of the plan that produced this action.
C17_AggregateIndependentOfOrder ==
    dispStatus = "returned" =>
        LET rs == SequentialResults(Len(items)) IN
        /\ DOMAIN aggregated.o = {rs[n].action : n \in 1..Len(rs)}
        /\ \A n \in 1..Len(rs) :
             (\A m \in (n + 1)..Len(rs) : rs[m].action # rs[n].action)
                 => aggregated.o[rs[n].action] = rs[n]

\* dispatch has returned on three tasks, two of them of one action with different
\* Results, which completed in the reverse of the order of the plan
C17_Witness ==
    /\ dispStatus = "returned"
    /\ Len(tasks) = 3
    /\ \E i, j \in TaskIds :
         /\ i < j
         /\ tasks[i].action = tasks[j].action
         /\ tasks[i].res # tasks[j].res
         /\ CompletedAt(j) < CompletedAt(i)
    /\ CompletedAt(3) < CompletedAt(1)

\* C18: nothing cancels a task of the cycle before asyncio.run closes the loop of a
\* finished main: the failure of a sibling does not, nor does the step in which dispatch
\* fails, which leaves every task and every oracle call as it was; and once dispatch has
\* failed no Aggregate is ever built from what the other tasks produce.
C18_SiblingsNotCancelled ==
    /\ [](\A i \in TaskIds : tasks[i].st = "cancelled" => loop = "closed")
    /\ [](dispStatus = "failed" => aggregated = Unset)
    /\ [][(dispStatus = "running" /\ dispStatus' = "failed")
            => (tasks' = tasks /\ threads' = threads)]_vars

\* dispatch has failed on one task (the loop has been asked to stop) and only then has
\* the oracle call of a sibling returned its answer: the sibling, not cancelled, is still
\* suspended, its answer is to be delivered, and there is no Aggregate
C18_Witness ==
    /\ dispStatus = "failed"
    /\ loop = "running"
    /\ aggregated = Unset
    /\ \E i, j \in TaskIds :
         /\ tasks[j].st = "failed"
         /\ tasks[i].st = "waiting"
         /\ CallsInProgress(i) = {}
         /\ \E p, q \in 1..Len(ready) :
              /\ p < q
              /\ ready[p] = StopEntry
              /\ ready[q].k = "set" /\ ready[q].c = i /\ ready[q].out.ok

\* the task is a Task for one of the four fixed actions whose provider was not supplied
Unprovided(task) ==
    /\ IsTask(task)
    /\ DictGet(task, "action", JStr("")).s \in Actions
    /\ ~Registered(task)

\* the registries the constructor builds on the lists of AgentLists
Registries == {Registry(agents) : agents \in AgentLists}

\* what the constructor builds on each list: the four actions as keys, each bound to the
\* last agent of the list that has its provider's name, to None when there is none
ConstructedShape ==
    \A agents \in AgentLists :
        /\ DOMAIN Registry(agents) = Actions
        /\ \A a \in Actions :
             LET named == {n \in 1..Len(agents) : agents[n].name = ProviderName(a)} IN
             Registry(agents)[a] =
                 IF named = {} THEN None
                 ELSE agents[CHOOSE n \in named : \A m \in named : m <= n]

\* C19: whatever the agents given to the constructor, the keys of the registry are the
\* four fixed actions, all advertised by the planning prompt; an action is bound to the
\* agent of its provider's name when one was given (the last of that name) and to no
\* provider otherwise; and a task for an action bound to no provider gets no invocation
\* and raises nothing: on a plan of Tasks dispatch fails only if an invocation failed.
C19_RegistryShape ==
    /\ ConstructedShape
    /\ DOMAIN action_to_agent = Actions
    /\ AdvertisedActions(action_to_agent) = Actions
    /\ action_to_agent \in Registries
    /\ \A n \in 1..Len(items) : Unprovided(items[n]) => InvocationsOf(n) = {}
    /\ (plan # Unset /\ IsPlan(plan) /\ dispStatus = "failed")
           => \E i \in TaskIds : tasks[i].st = "failed"

\* dispatch has returned on a plan with a task for a fixed action whose provider was not
\* supplied, a task of an unknown action and a task that was run: the Aggregate has the
\* entry of the last one only
C19_Witness ==
    /\ dispStatus = "returned"
    /\ IsPlan(plan)
    /\ \E n1, n2, n3 \in 1..Len(items) :
         /\ Unprovided(items[n1])
         /\ DictGet(items[n2], "action", JStr("")).s \notin Actions
         /\ Registered(items[n3])
    /\ Len(tasks) = 1
    /\ Cardinality(DOMAIN aggregated.o) = 1

====
